---- MODULE Spec2Model ----
(***************************************************************************)
(* Model of the daily clone statistics collector (src/collect_stats.py).   *)
(*                                                                         *)
(* Strings that the code takes apart (owner and repository segments of a   *)
(* link, directory names) are sequences of one-character strings.  A date  *)
(* is a day number; the code formats it as a zero-padded YYYY-MM-DD file   *)
(* name, whose lexicographic order is the order of the day numbers.  The   *)
(* file system is three maps: the runs/ files of every repository          *)
(* directory, the summary.json of every repository directory, and the      *)
(* global summary file.  A file is a record with a kind: "absent",         *)
(* "object" (a JSON object, val holds its fields), "nonnumeric" (a JSON    *)
(* object whose total_clones is a JSON string), "nonobject" (valid JSON    *)
(* that is not an object), "badjson" (text json.load rejects with          *)
(* JSONDecodeError) or "undecodable" (bytes that are not text, so that     *)
(* reading raises UnicodeDecodeError).                                     *)
(***************************************************************************)
EXTENDS Integers, Sequences, FiniteSets, TLC

\* ---------------------------------------------------------------- bounds
MaxDay == 1
MaxLinks == 3
MaxReadmeLinks == 2
MaxDamage == 1
MaxSeries == 2

Days == 0..MaxDay

\* ------------------------------------------------------------ JSON values
None == -1
Absent == [kind |-> "absent"]
NoData == [kind |-> "none"]
BadJson == [kind |-> "badjson"]
Undecodable == [kind |-> "undecodable"]
NonObject == [kind |-> "nonobject"]

Obj(v) == [kind |-> "object", val |-> v]

\* dict.get(key, default)
Get(obj, key, default) == IF key \in DOMAIN obj THEN obj[key] ELSE default

\* --------------------------------------------------------------- strings
Has(s, c) == \E i \in 1..Len(s) : s[i] = c

\* s.split(c)[0]
SplitFirst(s, c) ==
    IF Has(s, c)
    THEN SubSeq(s, 1, (CHOOSE i \in 1..Len(s) :
                          s[i] = c /\ \A j \in 1..(i - 1) : s[j] # c) - 1)
    ELSE s

\* s.replace('/', '_')
ReplaceSlash(s) == [i \in 1..Len(s) |-> IF s[i] = "/" THEN "_" ELSE s[i]]

\* f"{owner}/{repo_name}"
FullName(owner, repo_name) == owner \o <<"/">> \o repo_name

\* ------------------------------------------------- the discovery document
\* The document is the sequence of its markdown links; a link is the host
\* of its target, the path segment after the host (owner) and the rest of
\* the target up to the closing parenthesis.
GitHubLink(owner, rest) == [host |-> "github.com", owner |-> owner, rest |-> rest]

Links ==
    { GitHubLink(<<"o">>, <<"a">>),
      GitHubLink(<<"o">>, <<"a", "?", "t">>),
      GitHubLink(<<"o">>, <<"b", "#", "f">>),
      GitHubLink(<<"o">>, <<"b">>),
      GitHubLink(<<"o">>, <<"a", "/", "t">>),
      [host |-> "gitlab.com", owner |-> <<"o">>, rest |-> <<"a">>] }

\* the sequences over S of length at most n
SeqsUpTo(S, n) == UNION { [1..k -> S] : k \in 0..n }

Docs == SeqsUpTo(Links, MaxLinks)

\* the pattern \[([^\]]+)\]\(https://github\.com/([^/]+)/([^/)]+)\)
PatternMatches(link) ==
    /\ link.host = "github.com"
    /\ Len(link.owner) > 0
    /\ ~Has(link.owner, "/")
    /\ Len(link.rest) > 0
    /\ ~Has(link.rest, "/")
    /\ ~Has(link.rest, ")")

\* re.findall(pattern, content)
FindAll(content) ==
    LET found[i \in 0..Len(content)] ==
            IF i = 0 THEN <<>>
            ELSE IF PatternMatches(content[i]) THEN Append(found[i - 1], content[i])
            ELSE found[i - 1]
    IN  found[Len(content)]

InSeq(x, s) == \E i \in 1..Len(s) : s[i] = x

\* CleanRepoName without the split on '#'
CleanRepoName_KeepFragment(rest) == SplitFirst(rest, "?")

\* match[2].split('?')[0].split('#')[0]
CleanRepoName(rest) == SplitFirst(SplitFirst(rest, "?"), "#")

\* the loop over the matches: repos[i] is the list after i matches
ExtractRepos(matches) ==
    LET repos[i \in 0..Len(matches)] ==
            IF i = 0 THEN <<>>
            ELSE LET match == matches[i]
                     full_name == FullName(match.owner, CleanRepoName(match.rest))
                 IN  IF InSeq(full_name, repos[i - 1]) THEN repos[i - 1]
                     ELSE Append(repos[i - 1], full_name)
    IN  repos[Len(matches)]

\* fetch_ecosystem_repos, after the download
ParseReadme(content) == ExtractRepos(FindAll(content))

\* the documents a run of the collector can download
ReadmeLinks ==
    { GitHubLink(<<"o">>, <<"a", "?", "t">>),
      GitHubLink(<<"o">>, <<"b">>),
      GitHubLink(<<"o">>, <<"a", "/", "t">>) }

Readmes == SeqsUpTo(ReadmeLinks, MaxReadmeLinks)

\* the directories of the tracked repositories: repos/<owner>_<repo>
DirOf(repo_full_name) == ReplaceSlash(repo_full_name)

Repos == { FullName(<<"o">>, <<"a">>), FullName(<<"o">>, <<"b">>),
           FullName(<<"o">>, <<"c">>) }
Dirs == { DirOf(r) : r \in Repos }
RepoOfDir(d) == CHOOSE r \in Repos : DirOf(r) = d

\* ------------------------------------------------------------- snapshots
\* the entries the traffic API can report for a day
Entries ==
    { [timestamp |-> 0, count |-> 5, uniques |-> 2],
      [timestamp |-> 1, count |-> 3, uniques |-> 4] }

\* the dictionary fetch_clone_traffic returns for the entry `latest`
TrafficDict(latest) ==
    [timestamp |-> latest.timestamp, count |-> latest.count,
     uniques |-> latest.uniques]

\* clone_data after main has attached repo and collected_at
Stamp(data, repo_full_name, t) ==
    [timestamp |-> data.timestamp, count |-> data.count,
     uniques |-> data.uniques, repo |-> repo_full_name, collected_at |-> t]

NoRuns == [d \in Days |-> Absent]

\* sorted(runs_dir.glob("*.json")): the days that have a file, ascending
RECURSIVE SortedFiles(_, _)
SortedFiles(runs, from) ==
    IF from > MaxDay THEN <<>>
    ELSE IF runs[from] = Absent THEN SortedFiles(runs, from + 1)
    ELSE <<from>> \o SortedFiles(runs, from + 1)

SetMax(S) == CHOOSE x \in S : \A y \in S : y <= x

\* ReadRun with the total assigned instead of accumulated
ReadRun_LastCount(acc, day, file) ==
    IF acc.raised THEN acc
    ELSE IF file.kind = "badjson" THEN acc
    ELSE IF file.kind # "object" THEN [acc EXCEPT !.raised = TRUE]
    ELSE [ all_runs |-> Append(acc.all_runs,
                          [date |-> day,
                           clones |-> Get(file.val, "count", 0),
                           unique_cloners |-> Get(file.val, "uniques", 0)]),
           total_clones |-> Get(file.val, "count", 0),
           unique_cloners_set |-> acc.unique_cloners_set
                                     \cup {Get(file.val, "uniques", 0)},
           raised |-> FALSE ]

\* ReadRun without the except clause
ReadRun_NoExcept(acc, day, file) ==
    IF acc.raised THEN acc
    ELSE IF file.kind # "object" THEN [acc EXCEPT !.raised = TRUE]
    ELSE [ all_runs |-> Append(acc.all_runs,
                          [date |-> day,
                           clones |-> Get(file.val, "count", 0),
                           unique_cloners |-> Get(file.val, "uniques", 0)]),
           total_clones |-> acc.total_clones + Get(file.val, "count", 0),
           unique_cloners_set |-> acc.unique_cloners_set
                                     \cup {Get(file.val, "uniques", 0)},
           raised |-> FALSE ]

\* one iteration of the loop over the run files; acc.raised is set by an
\* exception the except clause does not catch
ReadRun(acc, day, file) ==
    IF acc.raised THEN acc
    ELSE IF file.kind = "badjson" THEN acc
    ELSE IF file.kind # "object" THEN [acc EXCEPT !.raised = TRUE]
    ELSE [ all_runs |-> Append(acc.all_runs,
                          [date |-> day,
                           clones |-> Get(file.val, "count", 0),
                           unique_cloners |-> Get(file.val, "uniques", 0)]),
           total_clones |-> acc.total_clones + Get(file.val, "count", 0),
           unique_cloners_set |-> acc.unique_cloners_set
                                     \cup {Get(file.val, "uniques", 0)},
           raised |-> FALSE ]

RECURSIVE ReadRuns(_, _, _)
ReadRuns(files, runs, acc) ==
    IF files = <<>> THEN acc
    ELSE ReadRuns(Tail(files), runs, ReadRun(acc, Head(files), runs[Head(files)]))

\* update_repo_summary: the summary it writes, or raised = TRUE when it
\* ends in an uncaught exception before writing
update_repo_summary(runs, repo_name, t) ==
    LET acc == ReadRuns(SortedFiles(runs, 0), runs,
                        [all_runs |-> <<>>, total_clones |-> 0,
                         unique_cloners_set |-> {}, raised |-> FALSE])
        all_runs == acc.all_runs
    IN  [ raised |-> acc.raised,
          summary |->
            [ repo_name |-> repo_name,
              last_updated |-> t,
              total_days_tracked |-> Len(all_runs),
              total_clones |-> acc.total_clones,
              max_unique_cloners_in_window |->
                  IF acc.unique_cloners_set # {}
                  THEN SetMax(acc.unique_cloners_set) ELSE 0,
              first_tracked |->
                  IF all_runs # <<>> THEN all_runs[1].date ELSE None,
              last_tracked |->
                  IF all_runs # <<>> THEN all_runs[Len(all_runs)].date ELSE None,
              daily_history |-> all_runs ] ]

\* ------------------------------------------------------ the global summary
NoSummaries == [d \in Dirs |-> Absent]

\* the sort key  x.get('total_clones', 0)
SortKey(x) == Get(x.val, "total_clones", 0)

\* InsertDesc putting x in front of the elements with an equal key
InsertDesc_TiesFirst(done, x) ==
    LET n == Cardinality({ i \in 1..Len(done) : SortKey(done[i]) > SortKey(x) })
    IN  SubSeq(done, 1, n) \o <<x>> \o SubSeq(done, n + 1, Len(done))

\* where sorted(..., reverse=True) puts x in an already sorted prefix:
\* behind every element whose key is not smaller
InsertDesc(done, x) ==
    LET n == Cardinality({ i \in 1..Len(done) : SortKey(done[i]) >= SortKey(x) })
    IN  SubSeq(done, 1, n) \o <<x>> \o SubSeq(done, n + 1, Len(done))

RECURSIVE SortedDesc(_, _)
SortedDesc(list, done) ==
    IF list = <<>> THEN done
    ELSE SortedDesc(Tail(list), InsertDesc(done, Head(list)))

\* sorted() raises when the key function fails on an element that is not
\* an object, or when it has to compare a number with a string
SortRaises(list) ==
    \/ \E i \in 1..Len(list) : list[i].kind = "nonobject"
    \/ /\ \E i \in 1..Len(list) : list[i].kind = "nonnumeric"
       /\ \E i \in 1..Len(list) : list[i].kind = "object"

\* one iteration of the loop over the repository directories
ReadSummary(acc, file) ==
    IF file.kind = "absent" THEN acc
    ELSE IF file.kind \in {"badjson", "undecodable"} THEN acc
    ELSE IF file.kind \in {"nonobject", "nonnumeric"}
         THEN [acc EXCEPT !.all_repo_summaries = Append(@, file)]
    ELSE [ all_repo_summaries |-> Append(acc.all_repo_summaries, file),
           total_clones_global |-> acc.total_clones_global
                                      + Get(file.val, "total_clones", 0),
           total_repos |-> acc.total_repos + 1 ]

RECURSIVE ReadSummaries(_, _, _)
ReadSummaries(order, summaries, acc) ==
    IF order = <<>> THEN acc
    ELSE ReadSummaries(Tail(order), summaries,
                       ReadSummary(acc, summaries[Head(order)]))

\* update_global_summary, with BASE_DIR.iterdir() yielding the
\* directories in `order`
update_global_summary(order, summaries, t) ==
    LET acc == ReadSummaries(order, summaries,
                             [all_repo_summaries |-> <<>>,
                              total_clones_global |-> 0, total_repos |-> 0])
    IN  [ raised |-> SortRaises(acc.all_repo_summaries),
          summary |->
            [ last_updated |-> t,
              total_repos_tracked |-> acc.total_repos,
              total_clones_all_repos |-> acc.total_clones_global,
              repositories |->
                  IF \A i \in 1..Len(acc.all_repo_summaries) :
                         acc.all_repo_summaries[i].kind = "object"
                  THEN SortedDesc(acc.all_repo_summaries, <<>>)
                  ELSE acc.all_repo_summaries ] ]

\* the directories whose summary file is opened, in the order of the loop
SummariesRead(order, summaries) ==
    LET read[i \in 0..Len(order)] ==
            IF i = 0 THEN <<>>
            ELSE IF summaries[order[i]] # Absent THEN Append(read[i - 1], order[i])
            ELSE read[i - 1]
    IN  read[Len(order)]

\* the orders in which iterdir() can yield the directories
DirOrders ==
    { o \in [1..Cardinality(Dirs) -> Dirs] :
        \A i, j \in 1..Cardinality(Dirs) : i # j => o[i] # o[j] }

\* ------------------------------------------------------- the traffic API
\* what the two API calls of fetch_clone_traffic can do: raise a
\* GithubException with a status, raise anything else, or report a series
ApiOutcomes ==
    { [kind |-> "GithubException", status |-> st, clones |-> <<>>] :
          st \in {403, 404, 500} }
    \cup { [kind |-> "Exception", status |-> 0, clones |-> <<>>] }
    \cup { [kind |-> "traffic", status |-> 200, clones |-> c] :
          c \in SeqsUpTo(Entries, MaxSeries) }

\* an exception that leaves the function
Raised == [kind |-> "raised"]

\* fetch_clone_traffic without the final except clause
fetch_clone_traffic_NoCatchAll(api) ==
    IF api.kind = "traffic"
    THEN IF api.clones # <<>>
         THEN Obj(TrafficDict(api.clones[Len(api.clones)]))
         ELSE NoData
    ELSE IF api.kind = "GithubException" THEN NoData
    ELSE Raised

\* fetch_clone_traffic: the dictionary or None it returns; both except
\* clauses return None
fetch_clone_traffic(api) ==
    IF api.kind = "traffic"
    THEN IF api.clones # <<>>
         THEN Obj(TrafficDict(api.clones[Len(api.clones)]))
         ELSE NoData
    ELSE IF api.kind = "GithubException" THEN NoData
    ELSE IF api.kind = "Exception" THEN NoData
    ELSE Raised

\* ------------------------------------------------------------ environment
EnvValues == {"<unset>", "", "ghp_token"}
Truthy(v) == v \notin {"<unset>", ""}

\* os.environ.get('TRAFFIC_TRACKER') or os.environ.get('GITHUB_TOKEN')
TokenFrom(traffic_tracker, github_token) ==
    IF Truthy(traffic_tracker) THEN traffic_tracker ELSE github_token

\* how a run ends: main returns, sys.exit(1) at one of the three fatal
\* checks, or an uncaught exception; and the process's exit code
Running == [how |-> "running", code |-> None]
Returned == [how |-> "returned", code |-> 0]
NoToken == [how |-> "no_token", code |-> 1]
AuthFailed == [how |-> "auth_failed", code |-> 1]
DownloadFailed == [how |-> "download_failed", code |-> 1]
Traceback == [how |-> "traceback", code |-> 1]

\* ------------------------------------------------------------------ state
VARIABLES
    pc,              \* where main is: "idle" when no run is in progress
    status,          \* how the last run ended, "running" during a run
    now,             \* the UTC clock, in days
    token,           \* main's token
    content,         \* response.text, when fetch_ecosystem_repos is run alone
    repos_to_track,  \* main's repos_to_track
    idx,             \* position of the for loop in repos_to_track
    clone_data,      \* main's clone_data
    runsFS,          \* repos/<dir>/runs/<day>.json
    summaryFS,       \* repos/<dir>/summary.json
    globalFS,        \* global-summary.json
    readOrder,       \* history: the order in which summary files were read
    startFS,         \* history: the files when the current run started
    startDay,        \* history: the day on which the current run started
    fetched,         \* history: the repositories fetched in the current run
    damaged          \* history: how many run files were damaged between runs

vars == <<pc, status, now, token, content, repos_to_track, idx, clone_data,
          runsFS, summaryFS, globalFS, readOrder, startFS, startDay, fetched,
          damaged>>

locals == <<token, content, repos_to_track, idx, clone_data>>
files == <<runsFS, summaryFS, globalFS>>
history == <<readOrder, startFS, startDay, fetched, damaged>>

FS == [runs |-> runsFS, summaries |-> summaryFS, global |-> globalFS]

\* get_today_filename: the day the file name is made of
get_today_filename(t) == t

\* check_if_already_ran_today looking for the file of the day before
check_if_already_ran_today_Yesterday(runs, t) ==
    t > 0 /\ runs[get_today_filename(t - 1)] # Absent

\* check_if_already_ran_today finding no file
check_if_already_ran_today_Never(runs, t) == FALSE

\* check_if_already_ran_today
check_if_already_ran_today(runs, t) == runs[get_today_filename(t)] # Absent

repo_full_name == repos_to_track[idx]
repo_dir == DirOf(repo_full_name)

Init ==
    /\ pc = "idle"
    /\ status = [how |-> "none", code |-> None]
    /\ now = 0
    /\ token = "<unset>"
    /\ content = <<>>
    /\ repos_to_track = <<>>
    /\ idx = 0
    /\ clone_data = NoData
    /\ runsFS = [d \in Dirs |-> NoRuns]
    /\ summaryFS = NoSummaries
    /\ globalFS = Absent
    /\ readOrder = <<>>
    /\ startFS = [runs |-> [d \in Dirs |-> NoRuns], summaries |-> NoSummaries,
                  global |-> Absent]
    /\ startDay = 0
    /\ fetched = {}
    /\ damaged = 0

\* the clock advances, at any moment
Tick ==
    /\ now < MaxDay
    /\ now' = now + 1
    /\ UNCHANGED <<pc, status, locals, files, history>>

\* the scheduler starts main
StartRun ==
    /\ pc = "idle"
    /\ pc' = "token"
    /\ status' = Running
    /\ token' = "<unset>"
    /\ content' = <<>>
    /\ repos_to_track' = <<>>
    /\ idx' = 0
    /\ clone_data' = NoData
    /\ startFS' = FS
    /\ startDay' = now
    /\ fetched' = {}
    /\ readOrder' = <<>>
    /\ UNCHANGED <<now, files, damaged>>

\* the process ends
Exit(st) ==
    /\ pc' = "idle"
    /\ status' = st

\* get_github_token returning the token without the check
get_github_token_NoExit(traffic_tracker, github_token) ==
    /\ token' = TokenFrom(traffic_tracker, github_token)
    /\ pc' = "auth"
    /\ status' = status

\* get_github_token
get_github_token(traffic_tracker, github_token) ==
    /\ token' = TokenFrom(traffic_tracker, github_token)
    /\ IF ~Truthy(token') THEN Exit(NoToken)
       ELSE pc' = "auth" /\ status' = status

GetToken ==
    /\ pc = "token"
    /\ \E tt \in EnvValues, gt \in EnvValues : get_github_token(tt, gt)
    /\ UNCHANGED <<now, content, repos_to_track, idx, clone_data, files, history>>

\* gh.get_user(): main exits when it raises
Authenticate ==
    /\ pc = "auth"
    /\ \E authenticated \in BOOLEAN :
          IF authenticated THEN pc' = "discover" /\ status' = status
          ELSE Exit(AuthFailed)
    /\ UNCHANGED <<now, locals, files, history>>

\* fetch_ecosystem_repos: the download, which exits on a RequestException,
\* and the extraction of the repository names from the document; main
\* then enters the for loop
fetch_ecosystem_repos ==
    /\ pc = "discover"
    /\ \E downloaded \in BOOLEAN :
          IF downloaded
          THEN /\ \E doc \in Readmes : repos_to_track' = ParseReadme(doc)
               /\ idx' = 1
               /\ pc' = "loop"
               /\ status' = status
          ELSE /\ UNCHANGED <<repos_to_track, idx>>
               /\ Exit(DownloadFailed)
    /\ UNCHANGED <<now, token, content, clone_data, files, history>>

\* the head of the loop body: the daily guard
Guard ==
    /\ pc = "loop"
    /\ idx <= Len(repos_to_track)
    /\ IF check_if_already_ran_today(runsFS[repo_dir], now)
       THEN idx' = idx + 1 /\ pc' = "loop"
       ELSE idx' = idx /\ pc' = "fetch"
    /\ UNCHANGED <<status, now, token, content, repos_to_track, clone_data,
                   files, history>>

\* clone_data = fetch_clone_traffic(...), and the branch on it
Fetch ==
    /\ pc = "fetch"
    /\ \E api \in ApiOutcomes :
          LET data == fetch_clone_traffic(api)
          IN  IF data = Raised
              THEN /\ Exit(Traceback)
                   /\ UNCHANGED <<clone_data, idx>>
              ELSE IF data # NoData
              THEN /\ clone_data' = Obj(Stamp(data.val, repo_full_name, now))
                   /\ idx' = idx
                   /\ pc' = "save"
                   /\ status' = status
              ELSE /\ clone_data' = NoData
                   /\ idx' = idx + 1
                   /\ pc' = "loop"
                   /\ status' = status
    /\ fetched' = fetched \cup {repo_full_name}
    /\ UNCHANGED <<now, token, content, repos_to_track, files,
                   readOrder, startFS, startDay, damaged>>

\* save_daily_run
save_daily_run ==
    /\ pc = "save"
    /\ runsFS' = [runsFS EXCEPT ![repo_dir][get_today_filename(now)] = clone_data]
    /\ pc' = "summarize"
    /\ UNCHANGED <<status, now, locals, summaryFS, globalFS, history>>

\* update_repo_summary(repo_dir, repo_full_name) in main
UpdateRepoSummary ==
    /\ pc = "summarize"
    /\ LET r == update_repo_summary(runsFS[repo_dir], repo_full_name, now)
       IN  IF r.raised
           THEN /\ Exit(Traceback)
                /\ UNCHANGED <<summaryFS, idx>>
           ELSE /\ summaryFS' = [summaryFS EXCEPT ![repo_dir] = Obj(r.summary)]
                /\ idx' = idx + 1
                /\ pc' = "loop"
                /\ status' = status
    /\ UNCHANGED <<now, token, content, repos_to_track, clone_data, runsFS,
                   globalFS, history>>

\* update_global_summary() at the end of main
UpdateGlobalSummary ==
    /\ pc = "loop"
    /\ idx > Len(repos_to_track)
    /\ \E order \in DirOrders :
          LET r == update_global_summary(order, summaryFS, now)
          IN  /\ readOrder' = SummariesRead(order, summaryFS)
              /\ IF r.raised
                 THEN Exit(Traceback) /\ UNCHANGED globalFS
                 ELSE globalFS' = Obj(r.summary) /\ Exit(Returned)
    /\ UNCHANGED <<now, locals, runsFS, summaryFS, startFS, startDay, fetched,
                   damaged>>

Next ==
    \/ Tick
    \/ StartRun
    \/ GetToken
    \/ Authenticate
    \/ fetch_ecosystem_repos
    \/ Guard
    \/ Fetch
    \/ save_daily_run
    \/ UpdateRepoSummary
    \/ UpdateGlobalSummary

Spec == Init /\ [][Next]_vars

\* ------------------------------------------- the functions run on their own
\* fetch_ecosystem_repos on a downloaded document
InitDiscovery ==
    /\ pc = "parse"
    /\ status = Running
    /\ now = 0
    /\ token = "ghp_token"
    /\ content \in Docs
    /\ repos_to_track = <<>>
    /\ idx = 0
    /\ clone_data = NoData
    /\ runsFS = [d \in Dirs |-> NoRuns]
    /\ summaryFS = NoSummaries
    /\ globalFS = Absent
    /\ readOrder = <<>>
    /\ startFS = [runs |-> [d \in Dirs |-> NoRuns], summaries |-> NoSummaries,
                  global |-> Absent]
    /\ startDay = 0
    /\ fetched = {}
    /\ damaged = 0

ExtractRepositories ==
    /\ pc = "parse"
    /\ repos_to_track' = ParseReadme(content)
    /\ idx' = 1
    /\ pc' = "loop"
    /\ UNCHANGED <<status, now, token, content, clone_data, files, history>>

SpecDiscovery == InitDiscovery /\ [][ExtractRepositories]_vars

\* update_repo_summary on a runs directory holding any files
SnapshotOf(r, e, t) == Obj(Stamp(TrafficDict(e), r, t))

RunsFiles(r) ==
    { runs \in [Days -> {Absent, BadJson, Undecodable, NonObject}
                          \cup { SnapshotOf(r, e, t) : e \in Entries, t \in Days }] :
        \A d \in Days : runs[d].kind = "object" => runs[d].val.collected_at <= d }

InitRepoSummary ==
    /\ pc = "summarize"
    /\ status = Running
    /\ now \in Days
    /\ token = "ghp_token"
    /\ content = <<>>
    /\ \E r \in Repos :
          /\ repos_to_track = <<r>>
          /\ \E runs \in RunsFiles(r) :
                runsFS = [d \in Dirs |-> IF d = DirOf(r) THEN runs ELSE NoRuns]
    /\ idx = 1
    /\ clone_data = NoData
    /\ summaryFS = NoSummaries
    /\ globalFS = Absent
    /\ readOrder = <<>>
    /\ startFS = [runs |-> [d \in Dirs |-> NoRuns], summaries |-> NoSummaries,
                  global |-> Absent]
    /\ startDay = 0
    /\ fetched = {}
    /\ damaged = 0

SpecRepoSummary == InitRepoSummary /\ [][UpdateRepoSummary]_vars

\* update_global_summary on summary files of any content
ValidRuns(r) ==
    [Days -> {Absent} \cup { SnapshotOf(r, e, 0) : e \in Entries }]

SummaryFiles(d) ==
    { Obj(update_repo_summary(runs, RepoOfDir(d), 0).summary) :
          runs \in ValidRuns(RepoOfDir(d)) }
    \cup { BadJson, Undecodable, NonObject,
           [kind |-> "nonnumeric",
            val |-> update_repo_summary(NoRuns, RepoOfDir(d), 0).summary] }

InitGlobalSummary ==
    /\ pc = "loop"
    /\ status = Running
    /\ now = 0
    /\ token = "ghp_token"
    /\ content = <<>>
    /\ repos_to_track = <<>>
    /\ idx = 1
    /\ clone_data = NoData
    /\ runsFS = [d \in Dirs |-> NoRuns]
    /\ summaryFS = NoSummaries
    /\ globalFS = Absent
    /\ readOrder = <<>>
    /\ startFS = [runs |-> [d \in Dirs |-> NoRuns], summaries |-> NoSummaries,
                  global |-> Absent]
    /\ startDay = 0
    /\ fetched = {}
    /\ damaged = 0

\* a summary file is put into a repository directory
PlaceSummary ==
    /\ pc = "loop"
    /\ \E d \in Dirs :
          /\ summaryFS[d] = Absent
          /\ \E file \in SummaryFiles(d) :
                summaryFS' = [summaryFS EXCEPT ![d] = file]
    /\ UNCHANGED <<pc, status, now, locals, runsFS, globalFS, history>>

NextGlobalSummary == PlaceSummary \/ UpdateGlobalSummary

SpecGlobalSummary == InitGlobalSummary /\ [][NextGlobalSummary]_vars

\* ------------------------------------------- files damaged between runs
RemoveSnapshot ==
    /\ pc = "idle"
    /\ damaged < MaxDamage
    /\ \E d \in Dirs, day \in Days :
          /\ runsFS[d][day] # Absent
          /\ runsFS' = [runsFS EXCEPT ![d][day] = Absent]
    /\ damaged' = damaged + 1
    /\ UNCHANGED <<pc, status, now, locals, summaryFS, globalFS, readOrder,
                   startFS, startDay, fetched>>

CorruptSnapshot ==
    /\ pc = "idle"
    /\ damaged < MaxDamage
    /\ \E d \in Dirs, day \in Days :
          /\ runsFS[d][day].kind = "object"
          /\ runsFS' = [runsFS EXCEPT ![d][day] = BadJson]
    /\ damaged' = damaged + 1
    /\ UNCHANGED <<pc, status, now, locals, summaryFS, globalFS, readOrder,
                   startFS, startDay, fetched>>

NextTamper == Next \/ RemoveSnapshot \/ CorruptSnapshot

SpecTamper == Init /\ [][NextTamper]_vars

\* =================================================================== claims

\* ---- C10: repository discovery
\* a link the extractor has to recognise: a github.com target with an owner
\* and one further path segment
IsRepoLink(link) ==
    /\ link.host = "github.com"
    /\ link.owner # <<>>
    /\ link.rest # <<>>
    /\ \A i \in 1..Len(link.rest) : link.rest[i] # "/"

\* the repository segment without its query or fragment: its longest
\* prefix that holds neither '?' nor '#'
Stripped(rest) ==
    LET clean == { n \in 0..Len(rest) :
                     \A j \in 1..n : rest[j] \notin {"?", "#"} }
    IN  SubSeq(rest, 1, CHOOSE n \in clean : \A m \in clean : m <= n)

LinkName(link) == link.owner \o <<"/">> \o Stripped(link.rest)

\* the first link of the document that names `name`
FirstLink(doc, name) ==
    CHOOSE i \in 1..Len(doc) :
        /\ IsRepoLink(doc[i]) /\ LinkName(doc[i]) = name
        /\ \A j \in 1..(i - 1) : ~(IsRepoLink(doc[j]) /\ LinkName(doc[j]) = name)

\* C10: fetch_ecosystem_repos returns exactly the distinct owner/repo
\* names of the document's repository links, with the query or fragment
\* stripped, each once, in the order of their first occurrence.
C10_Discovery ==
    pc = "loop" =>
        /\ { repos_to_track[i] : i \in 1..Len(repos_to_track) }
              = { LinkName(content[k]) :
                     k \in { k \in 1..Len(content) : IsRepoLink(content[k]) } }
        /\ \A i, j \in 1..Len(repos_to_track) :
              i < j => /\ repos_to_track[i] # repos_to_track[j]
                       /\ FirstLink(content, repos_to_track[i])
                             < FirstLink(content, repos_to_track[j])

\* a document naming o/b, then o/a twice (once with a query), parsed
C10_Witness ==
    /\ pc = "loop"
    /\ Len(content) = 3
    /\ content[1].rest = <<"b", "#", "f">>
    /\ content[2].rest = <<"a", "?", "t">>
    /\ content[3] = GitHubLink(<<"o">>, <<"a">>)
    /\ repos_to_track = << FullName(<<"o">>, <<"b">>), FullName(<<"o">>, <<"a">>) >>

\* ---- C1, C6: the repository summary
PresentDays(runs) == { d \in Days : runs[d] # Absent }
ValidDays(runs) == { d \in Days : runs[d].kind = "object" }

RECURSIVE SumOver(_, _, _)
SumOver(runs, days, field) ==
    IF days = {} THEN 0
    ELSE LET d == CHOOSE x \in days : TRUE
         IN  runs[d].val[field] + SumOver(runs, days \ {d}, field)

\* the summary `sum` is the fold of the files of `runs` on the days `days`
IsFoldOf(sum, runs, days) ==
    /\ sum.total_clones = SumOver(runs, days, "count")
    /\ sum.total_days_tracked = Cardinality(days)
    /\ sum.max_unique_cloners_in_window =
          IF days = {} THEN 0
          ELSE CHOOSE u \in { runs[d].val.uniques : d \in days } :
                  \A d \in days : runs[d].val.uniques <= u
    /\ sum.first_tracked =
          IF days = {} THEN None
          ELSE CHOOSE d \in days : \A e \in days : d <= e
    /\ sum.last_tracked =
          IF days = {} THEN None
          ELSE CHOOSE d \in days : \A e \in days : e <= d
    /\ Len(sum.daily_history) = Cardinality(days)
    /\ \A i \in 1..Len(sum.daily_history) :
          LET h == sum.daily_history[i]
          IN  /\ h.date \in days
              /\ h.clones = runs[h.date].val.count
              /\ h.unique_cloners = runs[h.date].val.uniques
              /\ \A j \in 1..(i - 1) : sum.daily_history[j].date < h.date

\* the directory update_repo_summary was called on, once it has ended
Summarized(d) ==
    /\ pc # "summarize"
    /\ d = DirOf(repos_to_track[1])

\* C1: on a runs directory of n snapshot files the written summary has the
\* sum of the counts, the maximum of the uniques, n days, the smallest and
\* largest date and the n days in ascending order; on an empty directory
\* the totals are 0 and the dates null.
C1_SummaryCorrect ==
    \A d \in Dirs :
        (Summarized(d) /\ ValidDays(runsFS[d]) = PresentDays(runsFS[d])) =>
            /\ status = Running
            /\ summaryFS[d].kind = "object"
            /\ IsFoldOf(summaryFS[d].val, runsFS[d], PresentDays(runsFS[d]))

\* a summary written from two snapshots with different counts and uniques
C1_Witness ==
    \E d \in Dirs :
        /\ Summarized(d)
        /\ summaryFS[d] # Absent
        /\ ValidDays(runsFS[d]) = Days
        /\ runsFS[d][0].val.count # runsFS[d][1].val.count
        /\ runsFS[d][0].val.uniques > runsFS[d][1].val.uniques

HasSummary == { d \in Dirs : summaryFS[d] # Absent }
ValidSummaries == { d \in Dirs : summaryFS[d].kind = "object" }

RECURSIVE SumTotals(_)
SumTotals(dirs) ==
    IF dirs = {} THEN 0
    ELSE LET d == CHOOSE x \in dirs : TRUE
         IN  summaryFS[d].val.total_clones + SumTotals(dirs \ {d})

Position(seq, x) == CHOOSE i \in 1..Len(seq) : seq[i] = x

\* the global summary `g` folds exactly the summaries of `dirs`
FoldsExactly(g, dirs) ==
    /\ g.total_clones_all_repos = SumTotals(dirs)
    /\ g.total_repos_tracked = Cardinality(dirs)
    /\ Len(g.repositories) = Cardinality(dirs)
    /\ { g.repositories[i] : i \in 1..Len(g.repositories) }
          = { summaryFS[d] : d \in dirs }

\* C5: with R valid summary files the global summary has the sum of their
\* totals, R as the number of repositories, and exactly those summaries in
\* descending order of total_clones, equal totals in the order read.
C5_GlobalFold ==
    (pc = "idle" /\ ValidSummaries = HasSummary) =>
        /\ status = Returned
        /\ globalFS.kind = "object"
        /\ FoldsExactly(globalFS.val, HasSummary)
        /\ LET R == globalFS.val.repositories
           IN  \A i, j \in 1..Len(R) :
                  i < j =>
                     /\ R[i].val.total_clones >= R[j].val.total_clones
                     /\ R[i].val.total_clones = R[j].val.total_clones
                           => Position(readOrder, DirOf(R[i].val.repo_name))
                                 < Position(readOrder, DirOf(R[j].val.repo_name))

\* three summaries folded, the one with the largest total read last and
\* the other two with equal totals
C5_Witness ==
    /\ pc = "idle"
    /\ ValidSummaries = Dirs
    /\ globalFS.kind = "object"
    /\ LET R == globalFS.val.repositories
       IN  /\ Len(R) = 3
           /\ R[1].val.total_clones > R[2].val.total_clones
           /\ R[2].val.total_clones = R[3].val.total_clones
           /\ R[2].val.total_clones > 0
           /\ readOrder = << DirOf(R[2].val.repo_name), DirOf(R[3].val.repo_name),
                             DirOf(R[1].val.repo_name) >>

\* C7: update_global_summary skips a summary file on any error: it ends
\* normally, writes the global summary, and folds in exactly the summary
\* files that are objects with a numeric total, so that
\* total_repos_tracked is the length of the repositories list.
C7_SkipOnAnyError ==
    pc = "idle" =>
        /\ status = Returned
        /\ globalFS.kind = "object"
        /\ FoldsExactly(globalFS.val, ValidSummaries)

\* ---- C3, C4: the daily guard
Tracked == { repos_to_track[i] : i \in 1..Len(repos_to_track) }

\* C3: in a run made on a date for which a repository already has its
\* snapshot, the repository is not fetched, its run files stay as they
\* were and its summary stays as it was.
C3_Idempotent ==
    \A r \in Repos :
        (startFS.runs[DirOf(r)][startDay] # Absent /\ now = startDay) =>
            /\ r \notin fetched
            /\ runsFS[DirOf(r)] = startFS.runs[DirOf(r)]
            /\ summaryFS[DirOf(r)] = startFS.summaries[DirOf(r)]

\* a completed second run on the date of a repository's snapshot, with the
\* repository in the document
C3_Witness ==
    /\ pc = "idle"
    /\ status = Returned
    /\ now = startDay
    /\ \E r \in Tracked :
          /\ startFS.runs[DirOf(r)][startDay].kind = "object"
          /\ startFS.runs[DirOf(r)][startDay].val.collected_at = startDay

\* C4: no run file that exists is ever changed or removed by the collector.
C4_SnapshotImmutable ==
    [][ \A d \in Dirs, day \in Days :
            runsFS[d][day] # Absent => runsFS'[d][day] = runsFS[d][day] ]_vars

\* a snapshot collected before midnight and saved after it, still in place
\* after a later run that started on the day of its file name
C4_Witness ==
    /\ pc = "idle"
    /\ status = Returned
    /\ startDay = 1
    /\ \E r \in Tracked :
          /\ runsFS[DirOf(r)][1].kind = "object"
          /\ runsFS[DirOf(r)][1].val.collected_at = 0
          /\ startFS.runs[DirOf(r)][1] = runsFS[DirOf(r)][1]

\* ---- C8: fetch failures
\* C8: fetch_clone_traffic never raises and yields None on every API error,
\* unexpected exception and empty series; a repository without data gets
\* no file written and the loop goes on to the next one; a run that has
\* entered the loop ends by writing the global summary and returning.
C8_FetchIsolated ==
    [][ /\ \A api \in ApiOutcomes :
              (api.kind # "traffic" \/ api.clones = <<>>)
                  => fetch_clone_traffic(api) = NoData
        /\ (pc = "fetch" /\ pc' # "fetch") =>
              /\ status' = Running
              /\ pc' \in {"save", "loop"}
              /\ pc' = "loop" =>
                    /\ clone_data' = NoData
                    /\ idx' = idx + 1
                    /\ UNCHANGED files
        /\ (pc \in {"loop", "fetch", "save", "summarize"} /\ pc' = "idle") =>
              /\ status' = Returned
              /\ idx > Len(repos_to_track)
              /\ globalFS'.kind = "object"
              /\ globalFS'.val.last_updated = now ]_vars

\* a completed run in which the first repository had no data and the
\* second one got its first snapshot
C8_Witness ==
    /\ pc = "idle"
    /\ status = Returned
    /\ Len(repos_to_track) = 2
    /\ fetched = Tracked
    /\ runsFS[DirOf(repos_to_track[1])] = NoRuns
    /\ summaryFS[DirOf(repos_to_track[1])] = Absent
    /\ startFS.runs[DirOf(repos_to_track[2])] = NoRuns
    /\ runsFS[DirOf(repos_to_track[2])][now] # Absent
    /\ globalFS # startFS.global

\* ---- C9: fatal conditions
FatalEnds == {NoToken, AuthFailed, DownloadFailed}

\* C9: a run without a credential, with a failed authentication or a
\* failed download exits non-zero having processed no repository and
\* touched no file; every other run exits zero.
C9_FatalAborts ==
    (pc = "idle" /\ status.how # "none") =>
        /\ status \in FatalEnds =>
              /\ status.code # 0
              /\ FS = startFS
              /\ idx = 0
              /\ fetched = {}
        /\ ~Truthy(token) => status = NoToken
        /\ status \notin FatalEnds => status.code = 0

\* a failed authentication, in a run started after an earlier run had
\* written files
C9_Witness ==
    /\ pc = "idle"
    /\ status = AuthFailed
    /\ globalFS # Absent
    /\ \E d \in Dirs : summaryFS[d] # Absent

\* ---- C2: recomputation on every run
\* the summary of directory d is the fold of its run files, apart from
\* last_updated (no summary file standing for no run file)
UpToDate(d) ==
    IF summaryFS[d] = Absent THEN PresentDays(runsFS[d]) = {}
    ELSE /\ summaryFS[d].kind = "object"
         /\ [summaryFS[d].val EXCEPT !.last_updated = 0]
               = update_repo_summary(runsFS[d], RepoOfDir(d), 0).summary

\* C2: when a run completes, the summary of every repository of the
\* document is the fold of the run files then in its directory.
C2_RecomputedEveryRun ==
    [][ (pc = "loop" /\ pc' = "idle" /\ status' = Returned) =>
            \A r \in Tracked : UpToDate(DirOf(r)) ]_vars

====
